---- MODULE Spec2Model ----
(***************************************************************************)
(* checkmk-matrix-notify.py: one run of the notification script.           *)
(*                                                                         *)
(* A Python str is a sequence of code points.  Printable ASCII code points *)
(* are written as themselves ("a", ":", " "), the line feed as "\n", and   *)
(* every other code point as "U+XXXX" (U+2705 is the check-mark emoji).    *)
(* os.environ is a function whose DOMAIN is the set of variables that are  *)
(* set; a variable's name is a TLA+ string, its value such a sequence.      *)
(***************************************************************************)
EXTENDS Integers, Sequences, FiniteSets, TLC

VARIABLES env, pc, homeserver, access_token, room_id, plain_text, html_text,
          success, outcome, sent, stdout, stderr, exit_code, unhandled

vars == <<env, pc, homeserver, access_token, room_id, plain_text, html_text,
          success, outcome, sent, stdout, stderr, exit_code, unhandled>>

(* ------------------------------ Configuration -------------------------- *)

REQUEST_TIMEOUT == 15

EXIT_SUCCESS == 0

EXIT_RETRY == 1

EXIT_FAILED == 2

\* Number of distinct values uuid.uuid4() is allowed to return in the model.
MaxTxn == 2

\* The names of the environment variables the script reads.
NOTIFY_PARAMETER_1 == "NOTIFY_PARAMETER_1"

NOTIFY_PARAMETER_2 == "NOTIFY_PARAMETER_2"

NOTIFY_PARAMETER_3 == "NOTIFY_PARAMETER_3"

NOTIFY_WHAT == "NOTIFY_WHAT"

NOTIFY_NOTIFICATIONTYPE == "NOTIFY_NOTIFICATIONTYPE"

NOTIFY_HOSTNAME == "NOTIFY_HOSTNAME"

OMD_SITE == "OMD_SITE"

NOTIFY_SHORTDATETIME == "NOTIFY_SHORTDATETIME"

NOTIFY_SERVICESHORTSTATE == "NOTIFY_SERVICESHORTSTATE"

NOTIFY_PREVIOUSSERVICEHARDSHORTSTATE == "NOTIFY_PREVIOUSSERVICEHARDSHORTSTATE"

NOTIFY_SERVICEOUTPUT == "NOTIFY_SERVICEOUTPUT"

NOTIFY_SERVICEDESC == "NOTIFY_SERVICEDESC"

NOTIFY_HOSTSHORTSTATE == "NOTIFY_HOSTSHORTSTATE"

NOTIFY_PREVIOUSHOSTHARDSHORTSTATE == "NOTIFY_PREVIOUSHOSTHARDSHORTSTATE"

NOTIFY_HOSTOUTPUT == "NOTIFY_HOSTOUTPUT"

\* STATE_EMOJIS: the WARN entry is U+26A0 U+FE0F followed by a space.
STATE_EMOJIS ==
    (<<"O", "K">> :> <<"U+2705">>) @@
    (<<"U", "P">> :> <<"U+2705">>) @@
    (<<"W", "A", "R", "N">> (* 'WARN' *) :> <<"U+26A0", "U+FE0F", " ">>) @@
    (<<"C", "R", "I", "T">> (* 'CRIT' *) :> <<"U+1F6A8">>) @@
    (<<"D", "O", "W", "N">> (* 'DOWN' *) :> <<"U+1F6A8">>) @@
    (<<"U", "N", "K", "N", "O", "W", "N">> (* 'UNKNOWN' *) :> <<"U+2754">>)

(* ------------------------------ str operations ------------------------- *)

LowerCase == <<"a", "b", "c", "d", "e", "f", "g", "h", "i", "j", "k", "l", "m", "n", "o", "p", "q", "r", "s", "t", "u", "v", "w", "x", "y", "z">> (* 'abcdefghijklmnopqrstuvwxyz' *)

UpperCase == <<"A", "B", "C", "D", "E", "F", "G", "H", "I", "J", "K", "L", "M", "N", "O", "P", "Q", "R", "S", "T", "U", "V", "W", "X", "Y", "Z">> (* 'ABCDEFGHIJKLMNOPQRSTUVWXYZ' *)

\* The code points outside printable ASCII that the model's strings may hold
\* (the Latin-1 supplement, the dotless i, the long s, the upper-case forms of
\* these, the symbols of the messages and the lone surrogate U+DCFF that
\* os.environ makes of the byte 0xFF), each with its number.
CodePoints ==
    ("U+00A0" :> 160) @@
    ("U+00A1" :> 161) @@
    ("U+00A2" :> 162) @@
    ("U+00A3" :> 163) @@
    ("U+00A4" :> 164) @@
    ("U+00A5" :> 165) @@
    ("U+00A6" :> 166) @@
    ("U+00A7" :> 167) @@
    ("U+00A8" :> 168) @@
    ("U+00A9" :> 169) @@
    ("U+00AA" :> 170) @@
    ("U+00AB" :> 171) @@
    ("U+00AC" :> 172) @@
    ("U+00AD" :> 173) @@
    ("U+00AE" :> 174) @@
    ("U+00AF" :> 175) @@
    ("U+00B0" :> 176) @@
    ("U+00B1" :> 177) @@
    ("U+00B2" :> 178) @@
    ("U+00B3" :> 179) @@
    ("U+00B4" :> 180) @@
    ("U+00B5" :> 181) @@
    ("U+00B6" :> 182) @@
    ("U+00B7" :> 183) @@
    ("U+00B8" :> 184) @@
    ("U+00B9" :> 185) @@
    ("U+00BA" :> 186) @@
    ("U+00BB" :> 187) @@
    ("U+00BC" :> 188) @@
    ("U+00BD" :> 189) @@
    ("U+00BE" :> 190) @@
    ("U+00BF" :> 191) @@
    ("U+00C0" :> 192) @@
    ("U+00C1" :> 193) @@
    ("U+00C2" :> 194) @@
    ("U+00C3" :> 195) @@
    ("U+00C4" :> 196) @@
    ("U+00C5" :> 197) @@
    ("U+00C6" :> 198) @@
    ("U+00C7" :> 199) @@
    ("U+00C8" :> 200) @@
    ("U+00C9" :> 201) @@
    ("U+00CA" :> 202) @@
    ("U+00CB" :> 203) @@
    ("U+00CC" :> 204) @@
    ("U+00CD" :> 205) @@
    ("U+00CE" :> 206) @@
    ("U+00CF" :> 207) @@
    ("U+00D0" :> 208) @@
    ("U+00D1" :> 209) @@
    ("U+00D2" :> 210) @@
    ("U+00D3" :> 211) @@
    ("U+00D4" :> 212) @@
    ("U+00D5" :> 213) @@
    ("U+00D6" :> 214) @@
    ("U+00D7" :> 215) @@
    ("U+00D8" :> 216) @@
    ("U+00D9" :> 217) @@
    ("U+00DA" :> 218) @@
    ("U+00DB" :> 219) @@
    ("U+00DC" :> 220) @@
    ("U+00DD" :> 221) @@
    ("U+00DE" :> 222) @@
    ("U+00DF" :> 223) @@
    ("U+00E0" :> 224) @@
    ("U+00E1" :> 225) @@
    ("U+00E2" :> 226) @@
    ("U+00E3" :> 227) @@
    ("U+00E4" :> 228) @@
    ("U+00E5" :> 229) @@
    ("U+00E6" :> 230) @@
    ("U+00E7" :> 231) @@
    ("U+00E8" :> 232) @@
    ("U+00E9" :> 233) @@
    ("U+00EA" :> 234) @@
    ("U+00EB" :> 235) @@
    ("U+00EC" :> 236) @@
    ("U+00ED" :> 237) @@
    ("U+00EE" :> 238) @@
    ("U+00EF" :> 239) @@
    ("U+00F0" :> 240) @@
    ("U+00F1" :> 241) @@
    ("U+00F2" :> 242) @@
    ("U+00F3" :> 243) @@
    ("U+00F4" :> 244) @@
    ("U+00F5" :> 245) @@
    ("U+00F6" :> 246) @@
    ("U+00F7" :> 247) @@
    ("U+00F8" :> 248) @@
    ("U+00F9" :> 249) @@
    ("U+00FA" :> 250) @@
    ("U+00FB" :> 251) @@
    ("U+00FC" :> 252) @@
    ("U+00FD" :> 253) @@
    ("U+00FE" :> 254) @@
    ("U+00FF" :> 255) @@
    ("U+0131" :> 305) @@
    ("U+0178" :> 376) @@
    ("U+017F" :> 383) @@
    ("U+039C" :> 924) @@
    ("U+2139" :> 8505) @@
    ("U+2192" :> 8594) @@
    ("U+26A0" :> 9888) @@
    ("U+2705" :> 9989) @@
    ("U+2754" :> 10068) @@
    ("U+DCFF" :> 56575) @@
    ("U+FE0F" :> 65039) @@
    ("U+1F6A8" :> 128680)

\* The upper-case form str.upper() gives the code points of CodePoints that
\* have one; it may be an ASCII letter or two code points.
NonAsciiUpper ==
    ("U+00B5" :> <<"U+039C">>) @@
    ("U+00DF" :> <<"S", "S">>) @@
    ("U+00E0" :> <<"U+00C0">>) @@
    ("U+00E1" :> <<"U+00C1">>) @@
    ("U+00E2" :> <<"U+00C2">>) @@
    ("U+00E3" :> <<"U+00C3">>) @@
    ("U+00E4" :> <<"U+00C4">>) @@
    ("U+00E5" :> <<"U+00C5">>) @@
    ("U+00E6" :> <<"U+00C6">>) @@
    ("U+00E7" :> <<"U+00C7">>) @@
    ("U+00E8" :> <<"U+00C8">>) @@
    ("U+00E9" :> <<"U+00C9">>) @@
    ("U+00EA" :> <<"U+00CA">>) @@
    ("U+00EB" :> <<"U+00CB">>) @@
    ("U+00EC" :> <<"U+00CC">>) @@
    ("U+00ED" :> <<"U+00CD">>) @@
    ("U+00EE" :> <<"U+00CE">>) @@
    ("U+00EF" :> <<"U+00CF">>) @@
    ("U+00F0" :> <<"U+00D0">>) @@
    ("U+00F1" :> <<"U+00D1">>) @@
    ("U+00F2" :> <<"U+00D2">>) @@
    ("U+00F3" :> <<"U+00D3">>) @@
    ("U+00F4" :> <<"U+00D4">>) @@
    ("U+00F5" :> <<"U+00D5">>) @@
    ("U+00F6" :> <<"U+00D6">>) @@
    ("U+00F8" :> <<"U+00D8">>) @@
    ("U+00F9" :> <<"U+00D9">>) @@
    ("U+00FA" :> <<"U+00DA">>) @@
    ("U+00FB" :> <<"U+00DB">>) @@
    ("U+00FC" :> <<"U+00DC">>) @@
    ("U+00FD" :> <<"U+00DD">>) @@
    ("U+00FE" :> <<"U+00DE">>) @@
    ("U+00FF" :> <<"U+0178">>) @@
    ("U+0131" :> <<"I">>) @@
    ("U+017F" :> <<"S">>)

\* str.upper() on one code point: the code points it becomes.
upper_char(c) ==
    IF \E i \in 1..Len(LowerCase) : LowerCase[i] = c
    THEN << UpperCase[CHOOSE i \in 1..Len(LowerCase) : LowerCase[i] = c] >>
    ELSE IF c \in DOMAIN NonAsciiUpper THEN NonAsciiUpper[c]
    ELSE << c >>

RECURSIVE str_upper(_)
str_upper(s) == IF s = << >> THEN << >> ELSE upper_char(Head(s)) \o str_upper(Tail(s))

RECURSIVE str_join(_, _)
\* sep.join(lines)
str_join(sep, lines) ==
    IF Len(lines) = 0 THEN <<>>
    ELSE IF Len(lines) = 1 THEN lines[1]
    ELSE lines[1] \o sep \o str_join(sep, Tail(lines))

(* ------------------------------ Helper functions ----------------------- *)

\* os.environ.get(name, default)
get_env(e, name, default) == IF name \in DOMAIN e THEN e[name] ELSE default

\* A variant of the test that rejects None only (`if value is None`).
required_env_missing_none(e, name) == name \notin DOMAIN e

\* The test of get_required_env: os.environ.get(name) is None or "".
required_env_missing(e, name) == name \notin DOMAIN e \/ e[name] = <<>>

\* A variant of get_emoji that looks the state up case-insensitively.
get_emoji_any_case(state) ==
    IF str_upper(state) \in DOMAIN STATE_EMOJIS THEN STATE_EMOJIS[str_upper(state)]
    ELSE <<"U+2139", "U+FE0F", " ">>

get_emoji(state) ==
    IF state \in DOMAIN STATE_EMOJIS THEN STATE_EMOJIS[state] ELSE <<"U+2139", "U+FE0F", " ">>

(* ------------------------------ Message building ----------------------- *)

bm_what(e) == str_upper(get_env(e, NOTIFY_WHAT, <<"H", "O", "S", "T">> (* 'HOST' *)))

bm_is_service(e) == bm_what(e) = <<"S", "E", "R", "V", "I", "C", "E">> (* 'SERVICE' *)

bm_notification_type(e) == get_env(e, NOTIFY_NOTIFICATIONTYPE, <<>>)

\* A variant of the host name lookup that substitutes a placeholder.
bm_hostname_placeholder(e) == get_env(e, NOTIFY_HOSTNAME, <<"u", "n", "k", "n", "o", "w", "n">> (* 'unknown' *))

bm_hostname(e) == get_env(e, NOTIFY_HOSTNAME, <<>>)

bm_site(e) == get_env(e, OMD_SITE, <<>>)

bm_timestamp(e) == get_env(e, NOTIFY_SHORTDATETIME, <<>>)

bm_state(e) ==
    IF bm_is_service(e) THEN get_env(e, NOTIFY_SERVICESHORTSTATE, <<>>)
    ELSE get_env(e, NOTIFY_HOSTSHORTSTATE, <<>>)

bm_previous_state(e) ==
    IF bm_is_service(e) THEN get_env(e, NOTIFY_PREVIOUSSERVICEHARDSHORTSTATE, <<>>)
    ELSE get_env(e, NOTIFY_PREVIOUSHOSTHARDSHORTSTATE, <<>>)

bm_output(e) ==
    IF bm_is_service(e) THEN get_env(e, NOTIFY_SERVICEOUTPUT, <<>>)
    ELSE get_env(e, NOTIFY_HOSTOUTPUT, <<>>)

bm_service_name(e) ==
    IF bm_is_service(e) THEN get_env(e, NOTIFY_SERVICEDESC, <<>>) ELSE <<>>

bm_emoji(e) == get_emoji(bm_state(e))

\* A variant of plain_lines that appends the Service line for every kind.
plain_lines_always_service(e) ==
    << bm_emoji(e) \o <<" ">> \o bm_what(e) \o <<" ">> \o bm_notification_type(e)
         \o <<":", " ">> \o bm_hostname(e),
       <<"S", "e", "r", "v", "i", "c", "e", ":", " ">> (* 'Service: ' *) \o bm_service_name(e),
       <<"S", "t", "a", "t", "e", ":", " ">> (* 'State: ' *) \o bm_previous_state(e) \o <<" ", "U+2192", " ">> \o bm_state(e),
       <<"O", "u", "t", "p", "u", "t", ":", " ">> (* 'Output: ' *) \o bm_output(e) >>

plain_lines(e) ==
    << bm_emoji(e) \o <<" ">> \o bm_what(e) \o <<" ">> \o bm_notification_type(e)
         \o <<":", " ">> \o bm_hostname(e) >>
    \o (IF bm_is_service(e) THEN << <<"S", "e", "r", "v", "i", "c", "e", ":", " ">> (* 'Service: ' *) \o bm_service_name(e) >> ELSE <<>>)
    \o << <<"S", "t", "a", "t", "e", ":", " ">> (* 'State: ' *) \o bm_previous_state(e) \o <<" ", "U+2192", " ">> \o bm_state(e),
          <<"O", "u", "t", "p", "u", "t", ":", " ">> (* 'Output: ' *) \o bm_output(e) >>

build_plain_text(e) == str_join(<<"\n">>, plain_lines(e))

\* A variant of html_lines that leaves the Output line out.
html_lines_no_output(e) ==
    << <<"<", "p", ">", "<", "b", ">">> (* '<p><b>' *) \o bm_emoji(e) \o <<" ">> \o bm_what(e) \o <<" ">>
         \o bm_notification_type(e) \o <<"<", "/", "b", ">", "<", "/", "p", ">">> (* '</b></p>' *),
       <<"<", "b", ">", "H", "o", "s", "t", ":", "<", "/", "b", ">", " ">> (* '<b>Host:</b> ' *) \o bm_hostname(e) >>
    \o (IF bm_is_service(e) THEN << <<"<", "b", ">", "S", "e", "r", "v", "i", "c", "e", ":", "<", "/", "b", ">", " ">> (* '<b>Service:</b> ' *) \o bm_service_name(e) >> ELSE <<>>)
    \o << <<"<", "b", ">", "S", "t", "a", "t", "e", ":", "<", "/", "b", ">", " ">> (* '<b>State:</b> ' *) \o bm_previous_state(e) \o <<" ", "&", "r", "a", "r", "r", ";", " ", "<", "b", ">">> (* ' &rarr; <b>' *) \o bm_state(e)
            \o <<"<", "/", "b", ">">> (* '</b>' *),
          <<"<", "p", ">", "<", "s", "m", "a", "l", "l", ">", "S", "i", "t", "e", ":", " ">> (* '<p><small>Site: ' *) \o bm_site(e) \o <<" ", "|", " ">> \o bm_timestamp(e)
            \o <<"<", "/", "s", "m", "a", "l", "l", ">", "<", "/", "p", ">">> (* '</small></p>' *) >>

html_lines(e) ==
    << <<"<", "p", ">", "<", "b", ">">> (* '<p><b>' *) \o bm_emoji(e) \o <<" ">> \o bm_what(e) \o <<" ">>
         \o bm_notification_type(e) \o <<"<", "/", "b", ">", "<", "/", "p", ">">> (* '</b></p>' *),
       <<"<", "b", ">", "H", "o", "s", "t", ":", "<", "/", "b", ">", " ">> (* '<b>Host:</b> ' *) \o bm_hostname(e) >>
    \o (IF bm_is_service(e) THEN << <<"<", "b", ">", "S", "e", "r", "v", "i", "c", "e", ":", "<", "/", "b", ">", " ">> (* '<b>Service:</b> ' *) \o bm_service_name(e) >> ELSE <<>>)
    \o << <<"<", "b", ">", "S", "t", "a", "t", "e", ":", "<", "/", "b", ">", " ">> (* '<b>State:</b> ' *) \o bm_previous_state(e) \o <<" ", "&", "r", "a", "r", "r", ";", " ", "<", "b", ">">> (* ' &rarr; <b>' *) \o bm_state(e)
            \o <<"<", "/", "b", ">">> (* '</b>' *),
          <<"<", "b", ">", "O", "u", "t", "p", "u", "t", ":", "<", "/", "b", ">", " ", "<", "c", "o", "d", "e", ">">> (* '<b>Output:</b> <code>' *) \o bm_output(e) \o <<"<", "/", "c", "o", "d", "e", ">">> (* '</code>' *),
          <<"<", "p", ">", "<", "s", "m", "a", "l", "l", ">", "S", "i", "t", "e", ":", " ">> (* '<p><small>Site: ' *) \o bm_site(e) \o <<" ", "|", " ">> \o bm_timestamp(e)
            \o <<"<", "/", "s", "m", "a", "l", "l", ">", "<", "/", "p", ">">> (* '</small></p>' *) >>

build_html_text(e) == str_join(<<"<", "b", "r", ">">> (* '<br>' *), html_lines(e))

\* The value build_message() returns: the pair (plain_text, html_text).
build_message(e) == << build_plain_text(e), build_html_text(e) >>

(* ------------------------------ Sending -------------------------------- *)

HexDigits == <<"0", "1", "2", "3", "4", "5", "6", "7", "8", "9", "A", "B", "C", "D", "E", "F">> (* '0123456789ABCDEF' *)

\* The printable ASCII code points in code order, U+0020 first.
Printable == <<" ", "!", "\"", "#", "$", "%", "&", "'", "(", ")", "*", "+", ",", "-", ".", "/", "0", "1", "2", "3", "4", "5", "6", "7", "8", "9", ":", ";", "<", "=", ">", "?", "@", "A", "B", "C", "D", "E", "F", "G", "H", "I", "J", "K", "L", "M", "N", "O", "P", "Q", "R", "S", "T", "U", "V", "W", "X", "Y", "Z", "[", "\\", "]", "^", "_", "U+0060", "a", "b", "c", "d", "e", "f", "g", "h", "i", "j", "k", "l", "m", "n", "o", "p", "q", "r", "s", "t", "u", "v", "w", "x", "y", "z", "{", "|", "}", "~">> (* ' !"#$%&'()<U+002A>+,-./0123456789:;<=>?@ABCDEFGHIJKLMNOPQRSTUVWXYZ[\]^_<U+0060>abcdefghijklmnopqrstuvwxyz{|}~' *)

\* ord(c): the number of a code point of the model's strings.
ord(c) ==
    IF \E i \in 1..Len(Printable) : Printable[i] = c
    THEN 31 + (CHOOSE i \in 1..Len(Printable) : Printable[i] = c)
    ELSE IF c = "\n" THEN 10
    ELSE CodePoints[c]

\* A surrogate code point: str.encode("utf-8") raises UnicodeEncodeError on it.
is_surrogate(n) == n >= 55296 /\ n <= 57343

\* The UTF-8 bytes of the code point with number n (not a surrogate).
utf8(n) ==
    IF n < 128 THEN << n >>
    ELSE IF n < 2048 THEN << 192 + (n \div 64), 128 + (n % 64) >>
    ELSE IF n < 65536
    THEN << 224 + (n \div 4096), 128 + ((n \div 64) % 64), 128 + (n % 64) >>
    ELSE << 240 + (n \div 262144), 128 + ((n \div 4096) % 64),
            128 + ((n \div 64) % 64), 128 + (n % 64) >>

percent_byte(b) == << "%", HexDigits[(b \div 16) + 1], HexDigits[(b % 16) + 1] >>

RECURSIVE percent_bytes(_)
percent_bytes(bs) ==
    IF bs = << >> THEN << >> ELSE percent_byte(Head(bs)) \o percent_bytes(Tail(bs))

\* The characters quote() never encodes (safe="" adds none to them).
AlwaysSafe ==
    { LowerCase[i] : i \in 1..Len(LowerCase) } \cup
    { UpperCase[i] : i \in 1..Len(UpperCase) } \cup
    { "0", "1", "2", "3", "4", "5", "6", "7", "8", "9", "_", ".", "-", "~" }

quote_char(c) == IF c \in AlwaysSafe THEN << c >> ELSE percent_bytes(utf8(ord(c)))

\* requests.utils.quote(s, safe="") raises UnicodeEncodeError: s holds a
\* surrogate, which the UTF-8 encoding of s rejects.
quote_raises(s) == \E i \in 1..Len(s) : is_surrogate(ord(s[i]))

RECURSIVE quote(_)
\* requests.utils.quote(s, safe="") when it does not raise: every code point
\* but the always-safe ones becomes the %XX of each of its UTF-8 bytes.
quote(s) == IF s = << >> THEN << >> ELSE quote_char(Head(s)) \o quote(Tail(s))

\* str(uuid.uuid4()): the n-th of the values the model lets uuid4() return,
\* in the canonical hyphenated form with version 4 and variant 8.
uuid4_str(n) == <<"0", "0", "0", "0", "0", "0", "0", "0", "-", "0", "0", "0", "0", "-", "4", "0", "0", "0", "-", "8", "0", "0", "0", "-", "0", "0", "0", "0", "0", "0", "0", "0", "0", "0", "0">> (* '00000000-0000-4000-8000-00000000000' *) \o << HexDigits[n + 1] >>

request_url(hs, room, txn_id) ==
    <<"h", "t", "t", "p", "s", ":", "/", "/">> (* 'https://' *) \o hs \o <<"/", "_", "m", "a", "t", "r", "i", "x", "/", "c", "l", "i", "e", "n", "t", "/", "v", "3", "/", "r", "o", "o", "m", "s", "/">> (* '/_matrix/client/v3/rooms/' *) \o quote(room)
      \o <<"/", "s", "e", "n", "d", "/", "m", ".", "r", "o", "o", "m", ".", "m", "e", "s", "s", "a", "g", "e", "/">> (* '/send/m.room.message/' *) \o txn_id

request_headers(token) ==
    [ Content_Type |-> <<"a", "p", "p", "l", "i", "c", "a", "t", "i", "o", "n", "/", "j", "s", "o", "n">> (* 'application/json' *),
      Authorization |-> <<"B", "e", "a", "r", "e", "r", " ">> (* 'Bearer ' *) \o token ]

request_payload(plain, html) ==
    [ msgtype |-> <<"m", ".", "t", "e", "x", "t">> (* 'm.text' *),
      body |-> plain,
      format |-> <<"o", "r", "g", ".", "m", "a", "t", "r", "i", "x", ".", "c", "u", "s", "t", "o", "m", ".", "h", "t", "m", "l">> (* 'org.matrix.custom.html' *),
      formatted_body |-> html ]

\* The arguments of the one requests.put call of send_to_matrix.
put_request(hs, token, room, plain, html, txn_id) ==
    [ method |-> "PUT",
      url |-> request_url(hs, room, txn_id),
      json |-> request_payload(plain, html),
      headers |-> request_headers(token),
      timeout |-> REQUEST_TIMEOUT ]

\* HTTP status codes of the response requests.put may return.
Statuses == { 200, 201, 204, 304, 400, 401, 403, 404, 429, 500, 503 }

\* Exception classes requests.put may raise, each with the classes it is an
\* instance of.  UnicodeEncodeError stands for the exceptions that are not
\* part of the requests.exceptions hierarchy.
ExceptionBases ==
    [ Timeout |-> { "Timeout", "RequestException" },
      ReadTimeout |-> { "ReadTimeout", "Timeout", "RequestException" },
      ConnectTimeout |-> { "ConnectTimeout", "ConnectionError", "Timeout",
                           "RequestException" },
      ConnectionError |-> { "ConnectionError", "RequestException" },
      SSLError |-> { "SSLError", "ConnectionError", "RequestException" },
      HTTPError |-> { "HTTPError", "RequestException" },
      InvalidURL |-> { "InvalidURL", "RequestException" },
      TooManyRedirects |-> { "TooManyRedirects", "RequestException" },
      UnicodeEncodeError |-> { "UnicodeEncodeError" } ]

\* What requests.put does: it returns a response or raises.
PutOutcomes ==
    { [ raised |-> "", status |-> s ] : s \in Statuses } \cup
    { [ raised |-> c, status |-> 0 ] : c \in DOMAIN ExceptionBases \ { "HTTPError" } }

\* A variant of raise_for_status that raises on every status but 200.
raise_for_status_not_200(o) ==
    IF o.raised = "" /\ o.status # 200
    THEN [ raised |-> "HTTPError", status |-> o.status ]
    ELSE o

\* response.raise_for_status(): the exception in flight after it.
raise_for_status(o) ==
    IF o.raised = "" /\ o.status >= 400 /\ o.status < 600
    THEN [ raised |-> "HTTPError", status |-> o.status ]
    ELSE o

NoError == [ raised |-> "", status |-> 0 ]

\* The except clauses of send_to_matrix in their order: the class caught and
\* the line printed to standard error (err is the exception interpolated).
ExceptClauses ==
    << [ class |-> "Timeout",
         line |-> [ text |-> <<"E", "R", "R", "O", "R", ":", " ", "R", "e", "q", "u", "e", "s", "t", " ", "t", "i", "m", "e", "d", " ", "o", "u", "t">> (* 'ERROR: Request timed out' *), with_err |-> FALSE ] ],
       [ class |-> "ConnectionError",
         line |-> [ text |-> <<"E", "R", "R", "O", "R", ":", " ", "C", "o", "u", "l", "d", " ", "n", "o", "t", " ", "c", "o", "n", "n", "e", "c", "t", " ", "t", "o", " ", "s", "e", "r", "v", "e", "r", ":", " ">> (* 'ERROR: Could not connect to server: ' *), with_err |-> TRUE ] ],
       [ class |-> "HTTPError",
         line |-> [ text |-> <<"E", "R", "R", "O", "R", ":", " ", "H", "T", "T", "P", " ", "e", "r", "r", "o", "r", ":", " ">> (* 'ERROR: HTTP error: ' *), with_err |-> TRUE ] ],
       [ class |-> "RequestException",
         line |-> [ text |-> <<"E", "R", "R", "O", "R", ":", " ", "R", "e", "q", "u", "e", "s", "t", " ", "f", "a", "i", "l", "e", "d", ":", " ">> (* 'ERROR: Request failed: ' *), with_err |-> TRUE ] ] >>

\* The indexes of the except clauses that match the exception o.
matching_clauses(o) ==
    { i \in 1..Len(ExceptClauses) : ExceptClauses[i].class \in ExceptionBases[o.raised] }

first_clause(o) ==
    CHOOSE i \in matching_clauses(o) : \A j \in matching_clauses(o) : i <= j

stderr_line(text, err) == [ text |-> text, err |-> err ]

\* The name of a required variable as the str the diagnostic interpolates.
name_str ==
    [ NOTIFY_PARAMETER_1 |-> <<"N", "O", "T", "I", "F", "Y", "_", "P", "A", "R", "A", "M", "E", "T", "E", "R", "_", "1">> (* 'NOTIFY_PARAMETER_1' *),
      NOTIFY_PARAMETER_2 |-> <<"N", "O", "T", "I", "F", "Y", "_", "P", "A", "R", "A", "M", "E", "T", "E", "R", "_", "2">> (* 'NOTIFY_PARAMETER_2' *),
      NOTIFY_PARAMETER_3 |-> <<"N", "O", "T", "I", "F", "Y", "_", "P", "A", "R", "A", "M", "E", "T", "E", "R", "_", "3">> (* 'NOTIFY_PARAMETER_3' *) ]

missing_env_line(name) ==
    stderr_line(<<"E", "R", "R", "O", "R", ":", " ", "M", "i", "s", "s", "i", "n", "g", " ", "r", "e", "q", "u", "i", "r", "e", "d", " ", "e", "n", "v", "i", "r", "o", "n", "m", "e", "n", "t", " ", "v", "a", "r", "i", "a", "b", "l", "e", ":", " ">> (* 'ERROR: Missing required environment variable: ' *) \o name_str[name],
                NoError)

(* ------------------------------ The run -------------------------------- *)

\* get_required_env(name) called from main: exit 2 when the variable is
\* absent or empty, else store the value and go on.
main_homeserver ==
    /\ pc = "get_homeserver"
    /\ IF required_env_missing(env, NOTIFY_PARAMETER_1)
       THEN /\ stderr' = Append(stderr, missing_env_line(NOTIFY_PARAMETER_1))
            /\ exit_code' = EXIT_FAILED
            /\ pc' = "exited"
            /\ UNCHANGED homeserver
       ELSE /\ homeserver' = env[NOTIFY_PARAMETER_1]
            /\ pc' = "get_access_token"
            /\ UNCHANGED <<stderr, exit_code>>
    /\ UNCHANGED <<env, access_token, room_id, plain_text, html_text, success, outcome,
                   sent, stdout, unhandled>>

\* A variant of the second read that takes the token with get_env, without
\* the check of get_required_env.
main_access_token_unchecked ==
    /\ pc = "get_access_token"
    /\ access_token' = get_env(env, NOTIFY_PARAMETER_2, << >>)
    /\ pc' = "get_room_id"
    /\ UNCHANGED <<env, homeserver, room_id, plain_text, html_text, success, outcome,
                   sent, stdout, stderr, exit_code, unhandled>>

main_access_token ==
    /\ pc = "get_access_token"
    /\ IF required_env_missing(env, NOTIFY_PARAMETER_2)
       THEN /\ stderr' = Append(stderr, missing_env_line(NOTIFY_PARAMETER_2))
            /\ exit_code' = EXIT_FAILED
            /\ pc' = "exited"
            /\ UNCHANGED access_token
       ELSE /\ access_token' = env[NOTIFY_PARAMETER_2]
            /\ pc' = "get_room_id"
            /\ UNCHANGED <<stderr, exit_code>>
    /\ UNCHANGED <<env, homeserver, room_id, plain_text, html_text, success, outcome,
                   sent, stdout, unhandled>>

main_room_id ==
    /\ pc = "get_room_id"
    /\ IF required_env_missing(env, NOTIFY_PARAMETER_3)
       THEN /\ stderr' = Append(stderr, missing_env_line(NOTIFY_PARAMETER_3))
            /\ exit_code' = EXIT_FAILED
            /\ pc' = "exited"
            /\ UNCHANGED room_id
       ELSE /\ room_id' = env[NOTIFY_PARAMETER_3]
            /\ pc' = "build_message"
            /\ UNCHANGED <<stderr, exit_code>>
    /\ UNCHANGED <<env, homeserver, access_token, plain_text, html_text, success, outcome,
                   sent, stdout, unhandled>>

\* plain_text, html_text = build_message()
main_build_message ==
    /\ pc = "build_message"
    /\ plain_text' = build_message(env)[1]
    /\ html_text' = build_message(env)[2]
    /\ pc' = "send_to_matrix"
    /\ UNCHANGED <<env, homeserver, access_token, room_id, success, outcome, sent,
                   stdout, stderr, exit_code, unhandled>>

\* success = send_to_matrix(...): the whole call, the request included.
\* quote(room_id) runs before the try: when it raises, requests.put is never
\* called.  An exception no except clause matches, and one raised outside the
\* try, leaves main unhandled: the interpreter prints the traceback to
\* standard error and exits with status 1.
main_send_to_matrix ==
    /\ pc = "send_to_matrix"
    /\ IF quote_raises(room_id)
       THEN /\ stderr' = Append(stderr,
                   stderr_line(<<"T", "r", "a", "c", "e", "b", "a", "c", "k", " ", "(", "m", "o", "s", "t", " ", "r", "e", "c", "e", "n", "t", " ", "c", "a", "l", "l", " ", "l", "a", "s", "t", ")", ":">> (* 'Traceback (most recent call last):' *),
                               [ raised |-> "UnicodeEncodeError", status |-> 0 ]))
            /\ unhandled' = TRUE
            /\ exit_code' = 1
            /\ pc' = "exited"
            /\ UNCHANGED <<outcome, sent, stdout, success>>
       ELSE \E n \in 1..MaxTxn, o \in PutOutcomes :
         LET r == raise_for_status(o) IN
         /\ outcome' = o
         /\ sent' = Append(sent, put_request(homeserver, access_token, room_id,
                                             plain_text, html_text, uuid4_str(n)))
         /\ IF r.raised = ""
            THEN /\ stdout' = Append(stdout, <<"O", "K", ":", " ", "M", "e", "s", "s", "a", "g", "e", " ", "s", "e", "n", "t", " ", "s", "u", "c", "c", "e", "s", "s", "f", "u", "l", "l", "y">> (* 'OK: Message sent successfully' *))
                 /\ success' = TRUE
                 /\ pc' = "exit"
                 /\ UNCHANGED <<stderr, exit_code, unhandled>>
            ELSE IF matching_clauses(r) # {}
            THEN /\ stderr' = Append(stderr,
                        LET c == ExceptClauses[first_clause(r)].line
                        IN stderr_line(c.text, IF c.with_err THEN r ELSE NoError))
                 /\ success' = FALSE
                 /\ pc' = "exit"
                 /\ UNCHANGED <<stdout, exit_code, unhandled>>
            ELSE /\ stderr' = Append(stderr,
                        stderr_line(<<"T", "r", "a", "c", "e", "b", "a", "c", "k", " ", "(", "m", "o", "s", "t", " ", "r", "e", "c", "e", "n", "t", " ", "c", "a", "l", "l", " ", "l", "a", "s", "t", ")", ":">> (* 'Traceback (most recent call last):' *), r))
                 /\ unhandled' = TRUE
                 /\ exit_code' = 1
                 /\ pc' = "exited"
                 /\ UNCHANGED <<stdout, success>>
    /\ UNCHANGED <<env, homeserver, access_token, room_id, plain_text, html_text>>

\* sys.exit(EXIT_SUCCESS) or sys.exit(EXIT_RETRY)
main_exit ==
    /\ pc = "exit"
    /\ exit_code' = IF success THEN EXIT_SUCCESS ELSE EXIT_RETRY
    /\ pc' = "exited"
    /\ UNCHANGED <<env, homeserver, access_token, room_id, plain_text, html_text,
                   success, outcome, sent, stdout, stderr, unhandled>>

Next ==
    \/ main_homeserver
    \/ main_access_token
    \/ main_room_id
    \/ main_build_message
    \/ main_send_to_matrix
    \/ main_exit

(* ------------------------------ Environments --------------------------- *)

RECURSIVE Environments(_, _, _)
\* Every environment that sets each variable of always, and any of the
\* variables of maybe, to one of the values vals gives for it.
Environments(always, maybe, vals) ==
    IF always \cup maybe = {} THEN { << >> }
    ELSE LET n == CHOOSE m \in always \cup maybe : TRUE
             rest == Environments(always \ {n}, maybe \ {n}, vals)
             with == { (n :> v) @@ e : v \in vals[n], e \in rest }
         IN IF n \in maybe THEN rest \cup with ELSE with

\* The state at process start, before main has run a statement; exit_code
\* is -1 until the process has exited.
InitIn(envs) ==
    /\ env \in envs
    /\ pc = "get_homeserver"
    /\ homeserver = << >>
    /\ access_token = << >>
    /\ room_id = << >>
    /\ plain_text = << >>
    /\ html_text = << >>
    /\ success = FALSE
    /\ outcome = NoError
    /\ sent = << >>
    /\ stdout = << >>
    /\ stderr = << >>
    /\ exit_code = -1
    /\ unhandled = FALSE

RequiredNames == { NOTIFY_PARAMETER_1, NOTIFY_PARAMETER_2, NOTIFY_PARAMETER_3 }

ContextNames ==
    { NOTIFY_WHAT, NOTIFY_NOTIFICATIONTYPE, NOTIFY_HOSTNAME, OMD_SITE,
      NOTIFY_SHORTDATETIME, NOTIFY_SERVICESHORTSTATE,
      NOTIFY_PREVIOUSSERVICEHARDSHORTSTATE, NOTIFY_SERVICEOUTPUT, NOTIFY_SERVICEDESC,
      NOTIFY_HOSTSHORTSTATE, NOTIFY_PREVIOUSHOSTHARDSHORTSTATE, NOTIFY_HOSTOUTPUT }

\* Runs of main: each required variable absent, empty or set, the room id
\* also with a non-ASCII letter and with an undecodable byte; a host or a
\* service notification.
RunValues ==
    (NOTIFY_PARAMETER_1 :> { << >>, <<"m", ".", "o", "r", "g">> (* 'm.org' *) }) @@
    (NOTIFY_PARAMETER_2 :> { << >>, <<"t", "o", "k">> }) @@
    (NOTIFY_PARAMETER_3 :> { << >>, <<"!", "r", ":", "m", ".", "o", "r", "g">> (* '!r:m.org' *), <<"!", "r", "U+00E9", ":", "m", ".", "o", "r", "g">> (* '!r<U+00E9>:m.org' *), <<"!", "r", "U+DCFF", ":", "m", ".", "o", "r", "g">> (* '!r<U+DCFF>:m.org' *) }) @@
    (NOTIFY_WHAT :> { <<"H", "O", "S", "T">> (* 'HOST' *), <<"S", "E", "R", "V", "I", "C", "E">> (* 'SERVICE' *) }) @@
    (NOTIFY_NOTIFICATIONTYPE :> { <<"P", "R", "O", "B", "L", "E", "M">> (* 'PROBLEM' *) }) @@
    (NOTIFY_HOSTNAME :> { <<"w", "e", "b", "0", "1">> (* 'web01' *) }) @@
    (NOTIFY_HOSTSHORTSTATE :> { <<"D", "O", "W", "N">> (* 'DOWN' *) }) @@
    (NOTIFY_SERVICESHORTSTATE :> { <<"C", "R", "I", "T">> (* 'CRIT' *) }) @@
    (NOTIFY_SERVICEDESC :> { <<"D", "i", "s", "k", " ", "/">> (* 'Disk /' *) })

RunEnvironments ==
    Environments({ NOTIFY_NOTIFICATIONTYPE, NOTIFY_HOSTNAME, NOTIFY_HOSTSHORTSTATE,
                   NOTIFY_SERVICESHORTSTATE, NOTIFY_SERVICEDESC },
                 RequiredNames \cup { NOTIFY_WHAT }, RunValues)

Init == InitIn(RunEnvironments)

Spec == Init /\ [][Next]_vars

(* ------------------------------ Properties of a run -------------------- *)

\* The required variables that are not set at all, and those that
\* get_required_env rejects (not set, or set to the empty string).
AbsentRequired == { n \in RequiredNames : n \notin DOMAIN env }

RejectedRequired == { n \in RequiredNames : n \notin DOMAIN env \/ env[n] = << >> }

RequiredOrder == << NOTIFY_PARAMETER_1, NOTIFY_PARAMETER_2, NOTIFY_PARAMETER_3 >>

FirstRejected ==
    RequiredOrder[CHOOSE i \in 1..3 :
                    /\ RequiredOrder[i] \in RejectedRequired
                    /\ \A j \in 1..(i - 1) : RequiredOrder[j] \notin RejectedRequired]

MissingPrefix == <<"E", "R", "R", "O", "R", ":", " ", "M", "i", "s", "s", "i", "n", "g", " ", "r", "e", "q", "u", "i", "r", "e", "d", " ", "e", "n", "v", "i", "r", "o", "n", "m", "e", "n", "t", " ", "v", "a", "r", "i", "a", "b", "l", "e", ":", " ">> (* 'ERROR: Missing required environment variable: ' *)

starts_with(s, p) == Len(s) >= Len(p) /\ SubSeq(s, 1, Len(p)) = p

ends_with(s, p) == Len(s) >= Len(p) /\ SubSeq(s, Len(s) - Len(p) + 1, Len(s)) = p

\* requests.put was called and returned a response with a 2xx status.
Got2xx == sent # << >> /\ outcome.raised = "" /\ outcome.status \in 200..299

\* requests.put was called and ended in one of the failures of a delivery
\* attempt: a timeout, a connection-level failure, or a non-2xx status.
DeliveryFailed ==
    /\ sent # << >>
    /\ \/ outcome.raised = "" /\ outcome.status \notin 200..299
       \/ outcome.raised # "" /\ "Timeout" \in ExceptionBases[outcome.raised]
       \/ outcome.raised # "" /\ "ConnectionError" \in ExceptionBases[outcome.raised]

\* A failure path of the run: a required variable was rejected, requests.put
\* raised, raise_for_status raised on the response, or an exception was
\* raised before the request.
RunFailed ==
    \/ RejectedRequired # {}
    \/ sent # << >> /\ raise_for_status(outcome).raised # ""
    \/ unhandled

\* C1: when a required variable is absent, no request is ever issued, and the
\* process ends with exit code 2 and one diagnostic on standard error that
\* names a required variable that is missing; nothing goes to standard output.
C1_AbsentConfigIsFatal ==
    AbsentRequired # {} =>
        /\ sent = << >>
        /\ stdout = << >>
        /\ pc \in { "get_homeserver", "get_access_token", "get_room_id", "exited" }
        /\ pc = "exited" =>
             /\ exit_code = 2
             /\ ~unhandled
             /\ Len(stderr) = 1
             /\ \E n \in RejectedRequired : stderr[1].text = MissingPrefix \o name_str[n]

\* A run that ended on an absent access token after the homeserver was read.
C1_Witness ==
    /\ pc = "exited"
    /\ NOTIFY_PARAMETER_1 \in DOMAIN env /\ env[NOTIFY_PARAMETER_1] # << >>
    /\ NOTIFY_PARAMETER_2 \notin DOMAIN env
    /\ exit_code = 2

\* C2: with the three required values present and a 2xx response,
\* send_to_matrix reports success, one line starting "OK:" is on standard
\* output, standard error is empty and the exit code is 0.
C2_DeliveredExitsZero ==
    (RejectedRequired = {} /\ Got2xx) =>
        /\ success
        /\ Len(stdout) = 1 /\ starts_with(stdout[1], <<"O", "K", ":">>)
        /\ stderr = << >>
        /\ ~unhandled
        /\ pc \in { "exit", "exited" }
        /\ pc = "exited" => exit_code = 0

\* A run that exited after a 201 response.
C2_Witness == pc = "exited" /\ Got2xx /\ outcome.status = 201 /\ exit_code = 0

\* C3 as claimed: with the required configuration present, a delivery attempt
\* that does not end in a 2xx response (timeout, connection failure, any
\* non-2xx status) ends in exit code 1 with the diagnostic on standard error
\* and nothing on standard output.
C3_FailedDeliveryExitsOne ==
    (RejectedRequired = {} /\ DeliveryFailed /\ pc = "exited") =>
        /\ exit_code = 1
        /\ stderr # << >>
        /\ stdout = << >>

\* C4 as claimed: every run ends with an exit code in {0, 1, 2}, no exception
\* leaves main unhandled, and every failure path ends in exit code 1 or 2.
C4_NoUnhandledException ==
    pc = "exited" =>
        /\ exit_code \in { 0, 1, 2 }
        /\ ~unhandled
        /\ RunFailed => exit_code \in { 1, 2 }

\* C5 as claimed: a run issues at most one request, exactly one when the three required
\* values are present; the request is issued only after the three values were
\* read and the message was built, and carries them.
C5_OneRequestPerRun ==
    /\ Len(sent) <= 1
    /\ (pc = "exited" /\ RejectedRequired = {}) => Len(sent) = 1
    /\ sent # << >> =>
         /\ RejectedRequired = {}
         /\ pc \in { "exit", "exited" }
         /\ homeserver = env[NOTIFY_PARAMETER_1]
         /\ access_token = env[NOTIFY_PARAMETER_2]
         /\ room_id = env[NOTIFY_PARAMETER_3]
         /\ sent[1].method = "PUT"
         /\ sent[1].json.body = plain_text /\ plain_text # << >>
         /\ sent[1].json.formatted_body = html_text /\ html_text # << >>
         /\ sent[1].headers.Authorization = <<"B", "e", "a", "r", "e", "r", " ">> (* 'Bearer ' *) \o access_token
         /\ starts_with(sent[1].url, <<"h", "t", "t", "p", "s", ":", "/", "/">> (* 'https://' *) \o homeserver \o <<"/">>)

\* C10: a required variable set to the empty string is rejected like an
\* absent one; the variables are checked in the order 1, 2, 3 and the one
\* diagnostic names the first that is absent or empty; no request is issued.
C10_EmptyIsMissingFirstReported ==
    RejectedRequired # {} =>
        /\ sent = << >>
        /\ pc \notin { "build_message", "send_to_matrix", "exit" }
        /\ pc = "exited" =>
             /\ exit_code = 2
             /\ stdout = << >>
             /\ stderr = << stderr_line(MissingPrefix \o name_str[FirstRejected], NoError) >>

\* A run that ended on an empty access token while the room id is absent.
C10_Witness ==
    /\ pc = "exited"
    /\ NOTIFY_PARAMETER_1 \in DOMAIN env /\ env[NOTIFY_PARAMETER_1] # << >>
    /\ NOTIFY_PARAMETER_2 \in DOMAIN env /\ env[NOTIFY_PARAMETER_2] = << >>
    /\ NOTIFY_PARAMETER_3 \notin DOMAIN env
    /\ exit_code = 2

(* ------------------------------ build_message alone -------------------- *)

\* The state in which main calls build_message: the three required values
\* have been read.
InitBuildIn(envs) ==
    /\ env \in envs
    /\ pc = "build_message"
    /\ homeserver = env[NOTIFY_PARAMETER_1]
    /\ access_token = env[NOTIFY_PARAMETER_2]
    /\ room_id = env[NOTIFY_PARAMETER_3]
    /\ plain_text = << >>
    /\ html_text = << >>
    /\ success = FALSE
    /\ outcome = NoError
    /\ sent = << >>
    /\ stdout = << >>
    /\ stderr = << >>
    /\ exit_code = -1
    /\ unhandled = FALSE

NextBuild == main_build_message

\* Notification contexts: every context variable absent or set, the kind in
\* several spellings, two of them
\* with letters outside ASCII.  Every value is a single line without markup.
BuildValues ==
    (NOTIFY_PARAMETER_1 :> { <<"m", ".", "o", "r", "g">> (* 'm.org' *) }) @@
    (NOTIFY_PARAMETER_2 :> { <<"t", "o", "k">> }) @@
    (NOTIFY_PARAMETER_3 :> { <<"!", "r", ":", "m", ".", "o", "r", "g">> (* '!r:m.org' *) }) @@
    (NOTIFY_WHAT :> { << >>, <<"H", "O", "S", "T">> (* 'HOST' *), <<"S", "E", "R", "V", "I", "C", "E">> (* 'SERVICE' *), <<"s", "e", "r", "v", "i", "c", "e">> (* 'service' *), <<"U+017F", "e", "r", "v", "i", "c", "e">> (* '<U+017F>ervice' *),
                     <<"s", "t", "r", "a", "U+00DF", "e">> (* 'stra<U+00DF>e' *) }) @@
    (NOTIFY_NOTIFICATIONTYPE :> { <<"P", "R", "O", "B", "L", "E", "M">> (* 'PROBLEM' *) }) @@
    (NOTIFY_HOSTNAME :> { <<"w", "e", "b", "0", "1">> (* 'web01' *) }) @@
    (OMD_SITE :> { <<"p", "r", "o", "d">> (* 'prod' *) }) @@
    (NOTIFY_SHORTDATETIME :> { <<"1", "2", ":", "0", "0">> (* '12:00' *) }) @@
    (NOTIFY_SERVICESHORTSTATE :> { <<"C", "R", "I", "T">> (* 'CRIT' *) }) @@
    (NOTIFY_PREVIOUSSERVICEHARDSHORTSTATE :> { <<"O", "K">> }) @@
    (NOTIFY_SERVICEOUTPUT :> { <<"d", "i", "s", "k", " ", "f", "u", "l", "l">> (* 'disk full' *) }) @@
    (NOTIFY_SERVICEDESC :> { <<"D", "i", "s", "k", " ", "/">> (* 'Disk /' *) }) @@
    (NOTIFY_HOSTSHORTSTATE :> { <<"D", "O", "W", "N">> (* 'DOWN' *) }) @@
    (NOTIFY_PREVIOUSHOSTHARDSHORTSTATE :> { <<"U", "P">> }) @@
    (NOTIFY_HOSTOUTPUT :> { <<"n", "o", " ", "p", "i", "n", "g">> (* 'no ping' *) })

BuildEnvironments == Environments(RequiredNames, ContextNames, BuildValues)

InitBuild == InitBuildIn(BuildEnvironments)

SpecBuild == InitBuild /\ [][NextBuild]_vars

\* State codes: the six of the table, other spellings of them, an unmapped
\* code and the empty string.
StateCodes ==
    { <<"O", "K">>, <<"U", "P">>, <<"W", "A", "R", "N">> (* 'WARN' *), <<"C", "R", "I", "T">> (* 'CRIT' *), <<"D", "O", "W", "N">> (* 'DOWN' *), <<"U", "N", "K", "N", "O", "W", "N">> (* 'UNKNOWN' *),
      <<"c", "r", "i", "t">> (* 'crit' *), <<"O", "k">>, <<"W", "a", "r", "n">> (* 'Warn' *), <<"f", "r", "o", "b", "n", "i", "c", "a", "t", "e">> (* 'frobnicate' *), << >> }

EmojiValues ==
    (NOTIFY_PARAMETER_1 :> { <<"m", ".", "o", "r", "g">> (* 'm.org' *) }) @@
    (NOTIFY_PARAMETER_2 :> { <<"t", "o", "k">> }) @@
    (NOTIFY_PARAMETER_3 :> { <<"!", "r", ":", "m", ".", "o", "r", "g">> (* '!r:m.org' *) }) @@
    (NOTIFY_WHAT :> { <<"H", "O", "S", "T">> (* 'HOST' *), <<"S", "E", "R", "V", "I", "C", "E">> (* 'SERVICE' *) }) @@
    (NOTIFY_NOTIFICATIONTYPE :> { <<"P", "R", "O", "B", "L", "E", "M">> (* 'PROBLEM' *) }) @@
    (NOTIFY_HOSTNAME :> { <<"w", "e", "b", "0", "1">> (* 'web01' *) }) @@
    (NOTIFY_SERVICESHORTSTATE :> StateCodes) @@
    (NOTIFY_HOSTSHORTSTATE :> StateCodes)

EmojiEnvironments ==
    Environments(RequiredNames \cup { NOTIFY_HOSTNAME },
                 { NOTIFY_WHAT, NOTIFY_NOTIFICATIONTYPE, NOTIFY_SERVICESHORTSTATE,
                   NOTIFY_HOSTSHORTSTATE }, EmojiValues)

InitEmoji == InitBuildIn(EmojiEnvironments)

SpecEmoji == InitEmoji /\ [][NextBuild]_vars

(* ------------------------------ Properties of the message -------------- *)

\* build_message has returned.
Built == pc = "send_to_matrix"

\* The first index at which sep occurs in s, 0 when it does not.
index_of(s, sep) ==
    LET hits == { i \in 1..(Len(s) - Len(sep) + 1) : SubSeq(s, i, i + Len(sep) - 1) = sep }
    IN IF hits = {} THEN 0 ELSE CHOOSE i \in hits : \A j \in hits : i <= j

RECURSIVE split(_, _)
\* The pieces of s between the occurrences of sep.
split(s, sep) ==
    LET i == index_of(s, sep)
    IN IF i = 0 THEN << s >>
       ELSE << SubSeq(s, 1, i - 1) >> \o split(SubSeq(s, i + Len(sep), Len(s)), sep)

\* The notification context as the environment gives it: the kind is the
\* upper-cased NOTIFY_WHAT (HOST when absent), and the state, previous state,
\* output and service name come from the variables of that kind.
CtxKind == str_upper(IF NOTIFY_WHAT \in DOMAIN env THEN env[NOTIFY_WHAT] ELSE <<"H", "O", "S", "T">> (* 'HOST' *))

CtxOr(name) == IF name \in DOMAIN env THEN env[name] ELSE << >>

CtxIsService == CtxKind = <<"S", "E", "R", "V", "I", "C", "E">> (* 'SERVICE' *)

CtxState ==
    IF CtxIsService THEN CtxOr(NOTIFY_SERVICESHORTSTATE) ELSE CtxOr(NOTIFY_HOSTSHORTSTATE)

CtxPrevious ==
    IF CtxIsService THEN CtxOr(NOTIFY_PREVIOUSSERVICEHARDSHORTSTATE)
    ELSE CtxOr(NOTIFY_PREVIOUSHOSTHARDSHORTSTATE)

CtxOutput == IF CtxIsService THEN CtxOr(NOTIFY_SERVICEOUTPUT) ELSE CtxOr(NOTIFY_HOSTOUTPUT)

PlainLines == split(plain_text, <<"\n">>)

HtmlLines == split(html_text, <<"<", "b", "r", ">">> (* '<br>' *))

HasLine(lines, line) == \E i \in 1..Len(lines) : lines[i] = line

CountPrefixed(lines, prefix) ==
    Cardinality({ i \in 1..Len(lines) : starts_with(lines[i], prefix) })

\* C6: both bodies hold a Service line, "Service: {serviceName}" in the plain
\* text, exactly when the kind is SERVICE, and no Service line otherwise; in
\* both cases the host, the State line and the Output line are there.
C6_ServiceLineIffService ==
    Built =>
        /\ CtxIsService =>
             /\ CountPrefixed(PlainLines, <<"S", "e", "r", "v", "i", "c", "e", ":">> (* 'Service:' *)) = 1
             /\ HasLine(PlainLines, <<"S", "e", "r", "v", "i", "c", "e", ":", " ">> (* 'Service: ' *) \o CtxOr(NOTIFY_SERVICEDESC))
             /\ CountPrefixed(HtmlLines, <<"<", "b", ">", "S", "e", "r", "v", "i", "c", "e", ":", "<", "/", "b", ">">> (* '<b>Service:</b>' *)) = 1
             /\ HasLine(HtmlLines, <<"<", "b", ">", "S", "e", "r", "v", "i", "c", "e", ":", "<", "/", "b", ">", " ">> (* '<b>Service:</b> ' *) \o CtxOr(NOTIFY_SERVICEDESC))
        /\ ~CtxIsService =>
             /\ CountPrefixed(PlainLines, <<"S", "e", "r", "v", "i", "c", "e", ":">> (* 'Service:' *)) = 0
             /\ CountPrefixed(HtmlLines, <<"<", "b", ">", "S", "e", "r", "v", "i", "c", "e", ":", "<", "/", "b", ">">> (* '<b>Service:</b>' *)) = 0
        /\ Len(PlainLines) = (IF CtxIsService THEN 4 ELSE 3)
        /\ Len(HtmlLines) = (IF CtxIsService THEN 6 ELSE 5)
        /\ ends_with(PlainLines[1], <<":", " ">> \o CtxOr(NOTIFY_HOSTNAME))
        /\ HasLine(PlainLines, <<"S", "t", "a", "t", "e", ":", " ">> (* 'State: ' *) \o CtxPrevious \o <<" ", "U+2192", " ">> \o CtxState)
        /\ HasLine(PlainLines, <<"O", "u", "t", "p", "u", "t", ":", " ">> (* 'Output: ' *) \o CtxOutput)
        /\ HasLine(HtmlLines, <<"<", "b", ">", "H", "o", "s", "t", ":", "<", "/", "b", ">", " ">> (* '<b>Host:</b> ' *) \o CtxOr(NOTIFY_HOSTNAME))
        /\ HasLine(HtmlLines, <<"<", "b", ">", "S", "t", "a", "t", "e", ":", "<", "/", "b", ">", " ">> (* '<b>State:</b> ' *) \o CtxPrevious \o <<" ", "&", "r", "a", "r", "r", ";", " ", "<", "b", ">">> (* ' &rarr; <b>' *)
                                \o CtxState \o <<"<", "/", "b", ">">> (* '</b>' *))
        /\ HasLine(HtmlLines, <<"<", "b", ">", "O", "u", "t", "p", "u", "t", ":", "<", "/", "b", ">", " ", "<", "c", "o", "d", "e", ">">> (* '<b>Output:</b> <code>' *) \o CtxOutput \o <<"<", "/", "c", "o", "d", "e", ">">> (* '</code>' *))

\* A service notification, spelled in lower case, with its service name set.
C6_Witness ==
    /\ Built
    /\ NOTIFY_WHAT \in DOMAIN env /\ env[NOTIFY_WHAT] = <<"s", "e", "r", "v", "i", "c", "e">> (* 'service' *)
    /\ NOTIFY_SERVICEDESC \in DOMAIN env
    /\ HasLine(PlainLines, <<"S", "e", "r", "v", "i", "c", "e", ":", " ", "D", "i", "s", "k", " ", "/">> (* 'Service: Disk /' *))

\* The indicator the table is said to hold for a state code: the sign alone.
ClaimedEmoji(state) ==
    IF state \in { <<"O", "K">>, <<"U", "P">> } THEN <<"U+2705">>
    ELSE IF state = <<"W", "A", "R", "N">> (* 'WARN' *) THEN <<"U+26A0", "U+FE0F">>
    ELSE IF state \in { <<"C", "R", "I", "T">> (* 'CRIT' *), <<"D", "O", "W", "N">> (* 'DOWN' *) } THEN <<"U+1F6A8">>
    ELSE IF state = <<"U", "N", "K", "N", "O", "W", "N">> (* 'UNKNOWN' *) THEN <<"U+2754">>
    ELSE <<"U+2139", "U+FE0F">>

\* The indicator as the amended claim has it: the warning sign and the
\* default info sign are each followed by a space that is part of the entry.
EntryEmoji(state) ==
    IF state = <<"W", "A", "R", "N">> (* 'WARN' *) \/ state \notin { <<"O", "K">>, <<"U", "P">>, <<"C", "R", "I", "T">> (* 'CRIT' *), <<"D", "O", "W", "N">> (* 'DOWN' *), <<"U", "N", "K", "N", "O", "W", "N">> (* 'UNKNOWN' *) }
    THEN ClaimedEmoji(state) \o <<" ">>
    ELSE ClaimedEmoji(state)

\* C7 as claimed: the first plain-text line starts with the sign for the raw
\* state code (exact match, case-sensitive, the info sign for any other
\* code), one space, and the kind.
C7_SignThenOneSpace ==
    Built => starts_with(plain_text, ClaimedEmoji(CtxState) \o <<" ">> \o CtxKind \o <<" ">>)

\* C7 amended: the first plain-text line is the table entry for the raw state
\* code (exact match, case-sensitive, the default entry for any other code),
\* one space, the kind, one space, the notification type, ": " and the host
\* name, where the WARN entry and the default entry end in a space of their
\* own, so that two spaces follow those two signs.
C7_EntryThenOneSpace ==
    Built =>
        PlainLines[1] = EntryEmoji(CtxState) \o <<" ">> \o CtxKind \o <<" ">>
                          \o CtxOr(NOTIFY_NOTIFICATIONTYPE) \o <<":", " ">> \o CtxOr(NOTIFY_HOSTNAME)

\* A service notification whose state code is a lower-case spelling of CRIT.
C7_Witness ==
    /\ Built
    /\ CtxIsService
    /\ CtxState = <<"c", "r", "i", "t">> (* 'crit' *)
    /\ starts_with(plain_text, <<"U+2139", "U+FE0F", " ", " ", "S", "E", "R", "V", "I", "C", "E">> (* '<U+2139><U+FE0F>  SERVICE' *))

\* The environment e with every absent variable of names set to "".
FillAbsent(e, names) ==
    [ n \in DOMAIN e \cup names |-> IF n \in DOMAIN e THEN e[n] ELSE << >> ]

\* C8 as claimed: the message is the one built with every absent context
\* variable set to the empty string.
C8_AbsentRendersEmpty ==
    Built => << plain_text, html_text >> = build_message(FillAbsent(env, ContextNames))

\* C8 amended: an absent NOTIFY_WHAT renders as HOST, and with that the
\* message is the one built with every other absent context variable set to
\* the empty string; with no context variable set it is the bare template.
C8_AbsentRendersEmptyButKind ==
    Built =>
        /\ << plain_text, html_text >> =
             build_message(FillAbsent((NOTIFY_WHAT :> CtxKind) @@ env, ContextNames))
        /\ NOTIFY_WHAT \notin DOMAIN env => starts_with(plain_text, EntryEmoji(CtxState) \o <<" ", "H", "O", "S", "T", " ">> (* ' HOST ' *))
        /\ DOMAIN env \cap ContextNames = {} =>
             /\ plain_text = <<"U+2139", "U+FE0F", " ", " ", "H", "O", "S", "T", " ", ":", " ", "\n", "S", "t", "a", "t", "e", ":", " ", " ", "U+2192", " ", "\n", "O", "u", "t", "p", "u", "t", ":", " ">> (* '<U+2139><U+FE0F>  HOST : \nState:  <U+2192> \nOutput: ' *)
             /\ html_text = <<"<", "p", ">", "<", "b", ">", "U+2139", "U+FE0F", " ", " ", "H", "O", "S", "T", " ", "<", "/", "b", ">", "<", "/", "p", ">", "<", "b", "r", ">", "<", "b", ">", "H", "o", "s", "t", ":", "<", "/", "b", ">", " ", "<", "b", "r", ">", "<", "b", ">", "S", "t", "a", "t", "e", ":", "<", "/", "b", ">", " ", " ", "&", "r", "a", "r", "r", ";", " ", "<", "b", ">", "<", "/", "b", ">", "<", "b", "r", ">", "<", "b", ">", "O", "u", "t", "p", "u", "t", ":", "<", "/", "b", ">", " ", "<", "c", "o", "d", "e", ">", "<", "/", "c", "o", "d", "e", ">", "<", "b", "r", ">", "<", "p", ">", "<", "s", "m", "a", "l", "l", ">", "S", "i", "t", "e", ":", " ", " ", "|", " ", "<", "/", "s", "m", "a", "l", "l", ">", "<", "/", "p", ">">> (* '<p><b><U+2139><U+FE0F>  HOST </b></p><br><b>Host:</b> <br><b>State:</b>  &rarr; <b></b><br><b>Output:</b> <code></code><br><p><small>Site:  | </small></p>' *)

\* A message built with no context variable set.
C8_Witness == Built /\ DOMAIN env \cap ContextNames = {}

\* Values to set a variable to in order to see whether a body shows it.
Probes == { <<"x", "1">>, <<"x", "2">> }

\* The body changes when the variable is given another value.
RenderedInPlain(n) ==
    \E v \in Probes : build_plain_text((n :> v) @@ env) # plain_text

RenderedInHtml(n) ==
    \E v \in Probes : build_html_text((n :> v) @@ env) # html_text

\* C9 as claimed: a context variable is rendered in the HTML body exactly
\* when it is rendered in the plain-text body.
C9_SameFields ==
    Built => \A n \in ContextNames : RenderedInPlain(n) <=> RenderedInHtml(n)

\* C9 amended: every context variable rendered in the plain-text body is
\* rendered in the HTML body, and the HTML body renders two more, the site
\* and the timestamp, which the plain-text body never shows.
C9_HtmlAddsSiteAndTime ==
    Built =>
        \A n \in ContextNames :
            /\ RenderedInPlain(n) => RenderedInHtml(n)
            /\ (RenderedInHtml(n) /\ ~RenderedInPlain(n))
                 <=> n \in { OMD_SITE, NOTIFY_SHORTDATETIME }

\* A service notification with site, timestamp and output set.
C9_Witness ==
    /\ Built
    /\ CtxIsService
    /\ { OMD_SITE, NOTIFY_SHORTDATETIME, NOTIFY_SERVICEOUTPUT } \subseteq DOMAIN env
    /\ RenderedInPlain(NOTIFY_SERVICEOUTPUT)
    /\ RenderedInHtml(OMD_SITE)

====
